---- MODULE Spec2Model ----
(***************************************************************************)
(* State-machine model of the grain trade backend: the trade life cycle    *)
(* (trade/models.py, trade/views.py, trade/signals.py), deliveries and     *)
(* their invoices and payments (accounting/models.py, accounting/          *)
(* signals.py, accounting/tasks.py) and investor financing                 *)
(* (investors/models.py, investors/signals.py).                            *)
(*                                                                         *)
(* Money is counted in mills (1/1000 of a currency unit), so that the      *)
(* half cents produced by a split fee and the mills produced by a per-kg   *)
(* transport rate are represented; DecimalField(decimal_places=2) columns  *)
(* hold multiples of 10 mills (ToDb).  Weights are whole kilograms.        *)
(* Rows are identified by their position in the table's sequence; Payment   *)
(* and JournalEntry rows, which the code only filters and sums, form bags.  *)
(***************************************************************************)
EXTENDS Integers, Sequences, FiniteSets, Bags, TLC

VARIABLES
    trades,         \* Trade rows, by trade id
    grns,           \* GoodsReceivedNote rows
    invoices,       \* Invoice rows
    payments,       \* Payment rows (a bag)
    journal,        \* JournalEntry rows (a bag)
    financings,     \* TradeFinancing rows
    accounts,       \* InvestorAccount rows, by investor
    ledger,         \* LedgerEntry rows, counted per event_type
    today,          \* timezone.now().date(), in days since the first invoice
    handler_order,  \* which post_save receiver of Trade is connected first
    rounding,       \* how the database rounds a decimal to its column's scale
    resaves,        \* number of plain updates made so far to a completed trade
    procs           \* per request in flight: the values it read and has not yet written

vars ==
    <<trades, grns, invoices, payments, journal, financings, accounts, ledger,
      today, handler_order, rounding, resaves, procs>>

(***************************************************************************)
(* Bounds of the exploration.                                              *)
(***************************************************************************)
MaxDay ==
    1

MaxResaves ==
    1

\* Payments recorded in a run of payment requests of any amount.
MaxPayments ==
    3

(***************************************************************************)
(* Program constants.                                                      *)
(***************************************************************************)
DefaultProfitThreshold ==
    2

DefaultInvestorShare ==
    75

DefaultBennuShare ==
    25

Investors ==
    {"inv1", "inv2"}

Procs ==
    {"p1", "p2"}

\* Net weights a delivery request may carry (kg).
Weights ==
    {4, 6, 11}

\* Amounts an investor may allocate to a trade (mills).
FinancingAmounts ==
    {5000, 10000}

\* A partial payment a buyer may make (mills); the amount due is always offered too.
PartialPayments ==
    {5000}

Statuses ==
    {"draft", "pending_approval", "approved", "pending_allocation",
     "ready_for_delivery", "in_transit", "delivered", "completed",
     "cancelled", "rejected"}

UnpaidStatuses ==
    {"unpaid", "partial", "overdue"}

\* The LedgerEntry event types that are counted; entries of the other types
\* ('trade_created', 'trade_delivered', 'grn_created', ...) are written and never
\* read by the code, and are left out.
LedgerTypes ==
    {"trade_completed", "trade_allocation", "trade_profit", "bennu_profit"}

(***************************************************************************)
(* Trades the buyer side may enter (TradeSerializer.create).  Cost inputs  *)
(* the model leaves out (aflatoxin_qa_cost, offloading_cost, loading_cost, *)
(* financing_fee_percentage, git_insurance_percentage,                     *)
(* deduction_percentage, other_expenses) are 0 in them.                    *)
(* net_tonnage is in hundredths of a tonne, prices in mills per kg.        *)
(***************************************************************************)
FinancedTrade ==
    [net_tonnage |-> 1, buying_price |-> 1000, selling_price |-> 3000,
     bennu_fees |-> 0, bennu_fees_payer |-> "buyer",
     transport_cost_per_kg |-> 0, weighbridge_cost |-> 0,
     payment_terms_days |-> 0, requires_financing |-> TRUE,
     requires_voucher_allocation |-> FALSE]

SplitFeeTrade ==
    [net_tonnage |-> 1, buying_price |-> 1000, selling_price |-> 2000,
     bennu_fees |-> 30, bennu_fees_payer |-> "split",
     transport_cost_per_kg |-> 6, weighbridge_cost |-> 0,
     payment_terms_days |-> 0, requires_financing |-> FALSE,
     requires_voucher_allocation |-> FALSE]

\* payment_terms_days is an IntegerField: the serializer accepts any 32-bit value,
\* here one that datetime.date cannot add to a delivery date.
LongTermsTrade ==
    [SplitFeeTrade EXCEPT !.payment_terms_days = 4000000]

\* requires_voucher_allocation is a writable field of TradeSerializer; no code
\* sets allocation_complete.
VoucherTrade ==
    [SplitFeeTrade EXCEPT !.requires_voucher_allocation = TRUE]

TradeInputs ==
    {FinancedTrade, SplitFeeTrade, LongTermsTrade, VoucherTrade}

\* Financed trades on either side of the default profit threshold of 2 %:
\* margin 0.10 on a cost of 10.00 (1 %), 0.20 on 10.00 (exactly 2 %), and
\* 0.30 on 10.10 (about 2.97 %).
ThinMarginTrade ==
    [FinancedTrade EXCEPT !.selling_price = 1010]

ThresholdMarginTrade ==
    [FinancedTrade EXCEPT !.selling_price = 1020]

SharedMarginTrade ==
    [FinancedTrade EXCEPT !.selling_price = 1040, !.weighbridge_cost = 100]

MarginTradeInputs ==
    {ThinMarginTrade, ThresholdMarginTrade, SharedMarginTrade}

\* 10 kg bought at 1,000 and sold at 1,200 with no extra costs: a thousandth of
\* the quantity of the reference scenario (10,000 kg), whose totals in mills are
\* beyond the integers of the model checker.
ScenarioATrade ==
    [SplitFeeTrade EXCEPT !.buying_price = 1000000, !.selling_price = 1200000,
                          !.bennu_fees = 0, !.bennu_fees_payer = "buyer",
                          !.transport_cost_per_kg = 0]

\* Trades with every payer of the platform fee, a fee of 0.03 or none, and a
\* weighbridge cost of 0.01 or none.
CostTradeInputs ==
    {[SplitFeeTrade EXCEPT !.bennu_fees = f, !.bennu_fees_payer = p,
                           !.weighbridge_cost = c, !.transport_cost_per_kg = 0] :
        f \in {0, 30}, p \in {"seller", "buyer", "split"}, c \in {0, 10}}
    \cup {ScenarioATrade}

\* gross_weight_kg - net_weight_kg of a delivery request (kg).
Losses ==
    {0, 1}

(***************************************************************************)
(* Decimal columns.                                                        *)
(***************************************************************************)
\* A decimal rounded to two places, as the database stores it: Django's
\* format_number quantizes half-even (SQLite, MySQL), PostgreSQL's numeric rounds
\* half away from zero.  x is in mills; x \div 10 is the floor.
ToDb(x) ==
    LET q == x \div 10
        r == x % 10
    IN  IF r = 0 THEN x
        ELSE IF r < 5 THEN 10 * q
        ELSE IF r > 5 THEN 10 * (q + 1)
        ELSE IF rounding = "half_even"
             THEN (IF q % 2 = 0 THEN 10 * q ELSE 10 * (q + 1))
             ELSE (IF x >= 0 THEN 10 * (q + 1) ELSE 10 * q)

\* In-memory Decimal results that are not whole mills (quotients): kept as
\* fractions of mills, den > 0.  Decimal carries 28 significant digits, which
\* decides no rounding to cents differently from the exact quotient here.
Frac(n, d) ==
    [num |-> n, den |-> d]

\* Greatest common divisor of two percentages.
GCD(a, b) ==
    LET common == {g \in 1..b : a % g = 0 /\ b % g = 0}
    IN  CHOOSE g \in common : \A h \in common : h <= g

\* q * n / d, for percentages n and d
FracMul(q, n, d) ==
    [num |-> q.num * (n \div GCD(n, d)), den |-> q.den * (d \div GCD(n, d))]

\* ToDb of a fraction of mills.
FracToDb(q) ==
    LET unit == 10 * q.den
        c == q.num \div unit
        twice == 2 * (q.num - c * unit)
    IN  IF twice < unit THEN 10 * c
        ELSE IF twice > unit THEN 10 * (c + 1)
        ELSE IF rounding = "half_even"
             THEN (IF c % 2 = 0 THEN 10 * c ELSE 10 * (c + 1))
             ELSE (IF q.num >= 0 THEN 10 * (c + 1) ELSE 10 * c)

\* ToDb of x + q for a stored amount x (whole cents) and a fraction q.
FracAddToDb(x, q) ==
    LET unit == 10 * q.den
        c == q.num \div unit
        twice == 2 * (q.num - c * unit)
        cents == x \div 10 + c
    IN  IF twice < unit THEN 10 * cents
        ELSE IF twice > unit THEN 10 * (cents + 1)
        ELSE IF rounding = "half_even"
             THEN (IF cents % 2 = 0 THEN 10 * cents ELSE 10 * (cents + 1))
             ELSE (IF cents >= 0 THEN 10 * (cents + 1) ELSE 10 * cents)

SumSeq(s, f(_)) ==
    LET sum[i \in 0..Len(s)] == IF i = 0 THEN 0 ELSE f(s[i]) + sum[i - 1]
    IN  sum[Len(s)]

Indexes(s, P(_)) ==
    {i \in 1..Len(s) : P(s[i])}

\* The sum of f over the rows of a bag.
SumBag(B, f(_)) ==
    LET sum[S \in SUBSET BagToSet(B)] ==
            IF S = {} THEN 0
            ELSE LET e == CHOOSE x \in S : TRUE
                 IN  B[e] * f(e) + sum[S \ {e}]
    IN  sum[BagToSet(B)]

\* INSERT of one row into a table kept as a bag.
Insert(B, row) ==
    B (+) SetToBag({row})

(***************************************************************************)
(* The database as one value, so that a handler is a function from the     *)
(* database before it to the database after it, and a transaction.atomic() *)
(* block that raises yields the database it started from.                  *)
(***************************************************************************)
DB ==
    [trades |-> trades, grns |-> grns, invoices |-> invoices, payments |-> payments,
     journal |-> journal, financings |-> financings, accounts |-> accounts,
     ledger |-> ledger]

Commit(D) ==
    /\ trades' = D.trades
    /\ grns' = D.grns
    /\ invoices' = D.invoices
    /\ payments' = D.payments
    /\ journal' = D.journal
    /\ financings' = D.financings
    /\ accounts' = D.accounts
    /\ ledger' = D.ledger

LedgerEntry_create(D, event_type) ==
    IF event_type \in LedgerTypes
    THEN [D EXCEPT !.ledger[event_type] = @ + 1]
    ELSE D

(***************************************************************************)
(* trade/models.py: Trade                                                  *)
(***************************************************************************)
\* Trade.calculate_costs: the totals as computed in memory (not yet rounded).
calculate_costs(tr) ==
    LET purchase_cost == tr.buying_price * tr.quantity_kg
        transport_total == tr.transport_cost_per_kg * tr.quantity_kg
        bennu_cost_to_trade ==
            IF tr.bennu_fees_payer = "seller" THEN tr.bennu_fees
            ELSE IF tr.bennu_fees_payer = "split" THEN tr.bennu_fees \div 2
            ELSE 0
        bennu_cost_to_buyer ==
            IF tr.bennu_fees_payer = "buyer" THEN tr.bennu_fees
            ELSE IF tr.bennu_fees_payer = "split" THEN tr.bennu_fees \div 2
            ELSE 0
        total_trade_cost ==
            purchase_cost + tr.weighbridge_cost + transport_total
                + bennu_cost_to_trade + tr.loss_quantity_kg * tr.buying_price
        payable_by_buyer == tr.selling_price * tr.quantity_kg + bennu_cost_to_buyer
    IN  [tr EXCEPT !.total_trade_cost = total_trade_cost,
                   !.payable_by_buyer = payable_by_buyer,
                   !.margin = payable_by_buyer - total_trade_cost]

\* The row written for an in-memory trade: decimal columns are rounded.
Trade_to_db(tr) ==
    [tr EXCEPT !.total_trade_cost = ToDb(@), !.payable_by_buyer = ToDb(@),
               !.margin = ToDb(@)]

AllTradeFields ==
    {"net_tonnage", "quantity_kg", "buying_price", "selling_price", "bennu_fees",
     "bennu_fees_payer", "transport_cost_per_kg", "weighbridge_cost",
     "payment_terms_days", "status", "requires_financing", "financing_complete",
     "requires_voucher_allocation", "allocation_complete", "total_trade_cost",
     "payable_by_buyer", "margin", "loss_quantity_kg", "internal_notes"}

\* Trade.internal_notes, the audit trail, is a list of entries here (a text in the
\* code, grown by `+=`).  The column is part of the rows of the specification that
\* follows the trail (InitAudit); the other specifications leave it out, like the
\* other texts of a trade.
HasNotes(tr) ==
    "internal_notes" \in DOMAIN tr

\* self.internal_notes += f"\n[{timestamp}] {text} by {user_name}: {notes}"
add_note(tr, text, notes) ==
    IF HasNotes(tr)
    THEN [tr EXCEPT !.internal_notes =
             Append(@, [timestamp |-> today, text |-> text, by |-> "user",
                        notes |-> notes])]
    ELSE tr

GrnsOf(D, t) ==
    Indexes(D.grns, LAMBDA g : g.trade = t)

InvoicesOf(D, t) ==
    Indexes(D.invoices, LAMBDA i : i.trade = t)

FinancingsOf(D, t) ==
    Indexes(D.financings, LAMBDA f : f.trade = t)

\* trade.grns.aggregate(total=Sum('net_weight_kg'))['total'] or 0
delivered_so_far(D, t) ==
    SumSeq(D.grns, LAMBDA g : IF g.trade = t THEN g.net_weight_kg ELSE 0)

\* A completion check that looks at payment_status 'unpaid' alone.
unpaid_invoices_only_unpaid(D, t) ==
    {i \in InvoicesOf(D, t) : D.invoices[i].payment_status = "unpaid"}

\* Invoice.objects.filter(trade=trade, payment_status__in=['unpaid','partial','overdue'])
unpaid_invoices(D, t) ==
    {i \in InvoicesOf(D, t) : D.invoices[i].payment_status \in UnpaidStatuses}

get_allocated_financing(D, t) ==
    SumSeq(D.financings, LAMBDA f : IF f.trade = t THEN f.allocated_amount ELSE 0)

\* A financing check that is satisfied by any allocation at all.
is_fully_financed_by_any(D, t) ==
    \/ ~D.trades[t].requires_financing
    \/ get_allocated_financing(D, t) > 0

is_fully_financed(D, t) ==
    \/ ~D.trades[t].requires_financing
    \/ get_allocated_financing(D, t) >= D.trades[t].total_trade_cost

(***************************************************************************)
(* investors/models.py: InvestorAccount                                    *)
(***************************************************************************)
InvestorAccount_to_db(acc) ==
    [available_balance |-> ToDb(acc.available_balance),
     total_utilized |-> ToDb(acc.total_utilized),
     total_margin_earned |-> ToDb(acc.total_margin_earned)]

\* An allocation without the balance check.
allocate_to_trade_unchecked(acc, amount) ==
    [raised |-> FALSE,
     account |-> InvestorAccount_to_db(
         [acc EXCEPT !.available_balance = @ - amount,
                     !.total_utilized = @ + amount])]

\* An allocation that does not record the amount as utilized.
allocate_to_trade_not_utilized(acc, amount) ==
    IF amount > acc.available_balance
    THEN [raised |-> TRUE, account |-> acc]
    ELSE [raised |-> FALSE,
          account |-> InvestorAccount_to_db(
              [acc EXCEPT !.available_balance = @ - amount])]

\* InvestorAccount.allocate_to_trade, on the instance acc the caller holds.
\* Raises ValidationError when the amount exceeds the balance of that instance.
allocate_to_trade(acc, amount) ==
    IF amount > acc.available_balance
    THEN [raised |-> TRUE, account |-> acc]
    ELSE [raised |-> FALSE,
          account |-> InvestorAccount_to_db(
              [acc EXCEPT !.available_balance = @ - amount,
                          !.total_utilized = @ + amount])]

\* InvestorAccount.release_from_trade; profit is a fraction of mills.
release_from_trade(acc, amount, profit) ==
    [available_balance |-> FracAddToDb(acc.available_balance + amount, profit),
     total_utilized |-> ToDb(acc.total_utilized - amount),
     total_margin_earned |-> FracAddToDb(acc.total_margin_earned, profit)]

(***************************************************************************)
(* Profit sharing, as both post_save receivers of Trade compute it         *)
(* (trade/signals.py 124-142, investors/signals.py 61-88).  Every account  *)
(* carries the default agreement that create_default_profit_sharing gives  *)
(* it.  margin_percentage <= profit_threshold is compared cross-multiplied.*)
(* The three margins of the in-memory financing are fractions of mills.    *)
(***************************************************************************)
apply_profit_sharing(inst, fin) ==
    LET margin_earned ==
            IF inst.total_trade_cost > 0
            THEN Frac(inst.margin * fin.allocated_amount, inst.total_trade_cost)
            ELSE Frac(0, 1)
        within_threshold ==
            IF inst.total_trade_cost > 0
            THEN inst.margin * 100 <= DefaultProfitThreshold * inst.total_trade_cost
            ELSE TRUE
    IN  [fin EXCEPT
            !.margin_earned = margin_earned,
            !.investor_margin =
                IF within_threshold THEN margin_earned
                ELSE FracMul(margin_earned, DefaultInvestorShare, 100),
            !.bennu_margin =
                IF within_threshold THEN Frac(0, 1)
                ELSE FracMul(margin_earned, DefaultBennuShare, 100)]

\* financing.save() of the in-memory financing.
TradeFinancing_to_db(fin) ==
    [fin EXCEPT !.margin_earned = FracToDb(@), !.investor_margin = FracToDb(@),
                !.bennu_margin = FracToDb(@)]

(***************************************************************************)
(* trade/signals.py: receivers of Trade's post_save                        *)
(***************************************************************************)
\* _distribute_trade_profits, the body of its loop for financing row k, with fin
\* the in-memory financing after the margins were assigned.
distribute_to_financing(Dk, k, fin) ==
    LET a == fin.investor_account
        D1 == [Dk EXCEPT
                  !.financings[k] = TradeFinancing_to_db(fin),
                  !.accounts[a] = release_from_trade(
                      Dk.accounts[a], fin.allocated_amount, fin.investor_margin)]
        D2 == LedgerEntry_create(D1, "trade_profit")
    IN  IF fin.bennu_margin.num > 0
        THEN LedgerEntry_create(D2, "bennu_profit")
        ELSE D2

\* _distribute_trade_profits: for every financing of the trade, in turn.
distribute_trade_profits(D, t, inst) ==
    LET step(Dk, k) ==
            IF Dk.financings[k].trade # t THEN Dk
            ELSE CHOOSE Dn \in
                     {distribute_to_financing(Dk, k, fin) :
                         fin \in {apply_profit_sharing(inst, Dk.financings[k])}} :
                     TRUE
        run[k \in 0..Len(D.financings)] ==
            IF k = 0 THEN D ELSE step(run[k - 1], k)
    IN  run[Len(D.financings)]

\* _handle_trade_completion
handle_trade_completion(D, t, inst) ==
    distribute_trade_profits(LedgerEntry_create(D, "trade_completed"), t, inst)

\* _handle_trade_cancellation: the funds of every financing of the trade go back
\* to the investor's account, each account being loaded from the database for its
\* financing.  Nothing sets allocation_complete, so no voucher is deallocated.
handle_trade_cancellation(D, t, inst) ==
    LET step(Dk, k) ==
            IF Dk.financings[k].trade # t THEN Dk
            ELSE LET a == Dk.financings[k].investor_account
                     amount == Dk.financings[k].allocated_amount
                 IN  LedgerEntry_create(
                         [Dk EXCEPT
                             !.accounts[a].total_utilized = ToDb(@ - amount),
                             !.accounts[a].available_balance = ToDb(@ + amount)],
                         "financing_released")
        run[k \in 0..Len(D.financings)] ==
            IF k = 0 THEN D ELSE step(run[k - 1], k)
    IN  LedgerEntry_create(run[Len(D.financings)], "trade_cancelled")

\* handle_trade_status_changes, for a trade that already existed (created = False).
\* No operation of the model sets 'allocated'; the Inventory rows
\* _handle_trade_delivery looks up are not modelled (Inventory.DoesNotExist).
handle_trade_status_changes(D, t, inst) ==
    IF inst.status = "delivered" THEN LedgerEntry_create(D, "trade_delivered")
    ELSE IF inst.status = "completed" THEN handle_trade_completion(D, t, inst)
    ELSE IF inst.status = "cancelled" THEN handle_trade_cancellation(D, t, inst)
    ELSE D

(***************************************************************************)
(* investors/signals.py: the other receiver of Trade's post_save           *)
(***************************************************************************)
\* handle_trade_profit_allocation, the body of its loop for financing row k, with
\* fin the in-memory financing after the margins were assigned.
allocate_profit_to_financing(Dk, k, fin) ==
    LET a == fin.investor_account
        D1 == [Dk EXCEPT
                  !.financings[k] = TradeFinancing_to_db(fin),
                  !.accounts[a] =
                      [Dk.accounts[a] EXCEPT
                          !.total_margin_earned = FracAddToDb(@, fin.investor_margin),
                          !.available_balance = FracAddToDb(@, fin.investor_margin)]]
        D2 == LedgerEntry_create(D1, "trade_profit")
    IN  IF fin.bennu_margin.num > 0
        THEN LedgerEntry_create(D2, "bennu_profit")
        ELSE D2

\* handle_trade_profit_allocation.  Every request loads its own Trade instance, so
\* the instance attribute _profit_allocated is unset whenever the receiver starts.
handle_trade_profit_allocation(D, t, inst) ==
    LET all_invoices_paid ==
            \A i \in InvoicesOf(D, t) : D.invoices[i].payment_status = "paid"
        step(Dk, k) ==
            IF Dk.financings[k].trade # t \/ Dk.financings[k].margin_earned > 0
            THEN Dk
            ELSE CHOOSE Dn \in
                     {allocate_profit_to_financing(Dk, k, fin) :
                         fin \in {apply_profit_sharing(inst, Dk.financings[k])}} :
                     TRUE
        run[k \in 0..Len(D.financings)] ==
            IF k = 0 THEN D ELSE step(run[k - 1], k)
    IN  IF \/ inst.status # "completed"
           \/ InvoicesOf(D, t) = {}
           \/ ~all_invoices_paid
           \/ FinancingsOf(D, t) = {}
        THEN D
        ELSE run[Len(D.financings)]

\* Dispatch of post_save(sender=Trade): the receivers run in the order in which
\* their modules were imported, which the application's settings decide.
post_save_Trade(D, t, inst) ==
    IF handler_order = "trade_first"
    THEN handle_trade_profit_allocation(handle_trade_status_changes(D, t, inst), t, inst)
    ELSE handle_trade_status_changes(handle_trade_profit_allocation(D, t, inst), t, inst)

\* Trade.save of the in-memory instance mem: quantity_kg and the totals are
\* recomputed in memory, the columns in fields are written (all of them for a plain
\* save()), then post_save is sent with the in-memory instance.
Trade_save(D, t, mem, fields) ==
    LET inst == calculate_costs([mem EXCEPT !.quantity_kg = mem.net_tonnage * 10])
        row == [f \in DOMAIN D.trades[t] |->
                   IF f \in fields THEN Trade_to_db(inst)[f] ELSE D.trades[t][f]]
    IN  post_save_Trade([D EXCEPT !.trades[t] = row], t, inst)

\* TradeSerializer.create followed by the first Trade.save (status 'draft').
NewTrade(input) ==
    Trade_to_db(calculate_costs(
        [net_tonnage |-> input.net_tonnage,
         quantity_kg |-> input.net_tonnage * 10,
         buying_price |-> input.buying_price,
         selling_price |-> input.selling_price,
         bennu_fees |-> input.bennu_fees,
         bennu_fees_payer |-> input.bennu_fees_payer,
         transport_cost_per_kg |-> input.transport_cost_per_kg,
         weighbridge_cost |-> input.weighbridge_cost,
         payment_terms_days |-> input.payment_terms_days,
         status |-> "draft",
         requires_financing |-> input.requires_financing,
         financing_complete |-> FALSE,
         requires_voucher_allocation |-> input.requires_voucher_allocation,
         allocation_complete |-> FALSE,
         loss_quantity_kg |-> 0,
         total_trade_cost |-> 0,
         payable_by_buyer |-> 0,
         margin |-> 0]))

\* Trade.get_delivery_progress()['is_fully_delivered']
is_fully_delivered(D, t) ==
    D.trades[t].quantity_kg - delivered_so_far(D, t) <= 0

transitions(status) ==
    CASE status = "draft" -> "pending_approval"
      [] status = "pending_approval" -> "approved"
      [] status = "approved" -> "ready_for_delivery"
      [] status = "pending_allocation" -> "ready_for_delivery"
      [] status = "ready_for_delivery" -> "in_transit"
      [] status = "in_transit" -> "delivered"
      [] status = "delivered" -> "completed"
      [] OTHER -> "none"

\* A progression that saves the next status before it validates.
progress_to_next_status_save_first(D, t, notes) ==
    LET tr == D.trades[t]
        next_status == transitions(tr.status)
        unmet == tr.requires_financing /\ ~tr.financing_complete
    IN  [raised |->
            \/ next_status = "none"
            \/ tr.status \in {"approved", "pending_allocation"} /\ unmet
            \/ /\ tr.status = "delivered"
               /\ \/ GrnsOf(D, t) = {}
                  \/ ~is_fully_delivered(D, t)
                  \/ unpaid_invoices(D, t) # {},
         db |-> IF next_status = "none" THEN D
                ELSE Trade_save(D, t, [tr EXCEPT !.status = next_status],
                                AllTradeFields)]

\* Trade.progress_to_next_status: the database after it, and whether it raised
\* ValidationError (then nothing was written).
progress_to_next_status(D, t, notes) ==
    LET tr == D.trades[t]
        current_status == tr.status
        next_status ==
            IF /\ current_status = "approved"
               /\ tr.requires_voucher_allocation
               /\ ~tr.allocation_complete
            THEN "pending_allocation"
            ELSE transitions(current_status)
        raises ==
            \/ transitions(current_status) = "none"
            \/ /\ current_status = "approved"
               /\ tr.requires_financing /\ ~tr.financing_complete
            \/ /\ current_status = "pending_allocation"
               /\ \/ tr.requires_voucher_allocation /\ ~tr.allocation_complete
                  \/ tr.requires_financing /\ ~tr.financing_complete
            \/ /\ current_status = "delivered"
               /\ \/ GrnsOf(D, t) = {}
                  \/ ~is_fully_delivered(D, t)
                  \/ unpaid_invoices(D, t) # {}
    IN  IF raises
        THEN [raised |-> TRUE, db |-> D]
        ELSE [raised |-> FALSE,
              db |-> Trade_save(
                        D, t,
                        IF notes # ""
                        THEN add_note([tr EXCEPT !.status = next_status],
                                      <<"Status", current_status, next_status>>,
                                      notes)
                        ELSE [tr EXCEPT !.status = next_status],
                        AllTradeFields)]

(***************************************************************************)
(* accounting/models.py: Invoice.  tax_rate, other_charges and             *)
(* discount_amount keep their default 0.                                   *)
(***************************************************************************)
\* Invoice.calculate_amounts
calculate_amounts(inv) ==
    LET subtotal == inv.quantity_kg * inv.unit_price
        add_on_charges == inv.bennu_fees + inv.logistics_cost + inv.weighbridge_cost
        total_amount == subtotal + add_on_charges
    IN  [inv EXCEPT !.subtotal = subtotal,
                    !.total_amount = total_amount,
                    !.amount_due = total_amount - inv.amount_paid]

\* Invoice.update_payment_status
update_payment_status(inv) ==
    LET a == IF inv.amount_paid = 0
             THEN [inv EXCEPT !.payment_status = "unpaid"]
             ELSE IF inv.amount_paid >= inv.total_amount
             THEN [inv EXCEPT !.payment_status = "paid", !.status = "paid"]
             ELSE [inv EXCEPT !.payment_status = "partial", !.status = "partially_paid"]
    IN  IF a.payment_status # "paid" /\ a.due_date < today
        THEN [a EXCEPT !.payment_status = "overdue",
                       !.status = IF @ \in {"cancelled", "paid"} THEN @ ELSE "overdue"]
        ELSE a

\* The row written for an in-memory invoice: decimal columns are rounded.
Invoice_to_db(inv) ==
    [inv EXCEPT !.bennu_fees = ToDb(@), !.logistics_cost = ToDb(@),
                !.weighbridge_cost = ToDb(@), !.subtotal = ToDb(@),
                !.total_amount = ToDb(@), !.amount_paid = ToDb(@),
                !.amount_due = ToDb(@)]

\* Invoice.save of the in-memory instance mem over row i: the amounts and the
\* payment status are recomputed in memory, the columns in fields are written.
Invoice_save(D, i, mem, fields) ==
    LET inst == update_payment_status(calculate_amounts(mem))
        row == [f \in DOMAIN D.invoices[i] |->
                   IF f \in fields THEN Invoice_to_db(inst)[f] ELSE D.invoices[i][f]]
    IN  [D EXCEPT !.invoices[i] = row]

\* The invoice_number of an instance that has none yet.
NoNumber ==
    [date |-> -1, count |-> 0]

\* Invoice.generate_invoice_number: f"INV-{date_str}-{count:04d}", count being one
\* more than the invoices created today that the query sees.
generate_invoice_number(D) ==
    [date |-> today,
     count |-> Cardinality(Indexes(D.invoices, LAMBDA i : i.created_at = today)) + 1]

\* Invoice.save of a new instance: the number is generated if the instance has
\* none; INSERT of every column, created_at being set by auto_now_add.
Invoice_insert(D, mem) ==
    LET numbered == IF mem.invoice_number = NoNumber
                    THEN [mem EXCEPT !.invoice_number = generate_invoice_number(D)]
                    ELSE mem
        inst == update_payment_status(calculate_amounts(numbered))
    IN  [D EXCEPT !.invoices =
            Append(@, Invoice_to_db([inst EXCEPT !.created_at = today]))]

AllInvoiceFields ==
    {"grn", "trade", "quantity_kg", "unit_price", "bennu_fees", "logistics_cost",
     "weighbridge_cost", "subtotal", "total_amount", "amount_paid", "amount_due",
     "payment_status", "status", "due_date", "invoice_number", "created_at"}

\* Invoice(grn=grn, trade=trade, status='issued') followed by populate_from_grn.
\* date + timedelta(days=payment_terms_days) raises OverflowError past
\* date.max, which is less than 3,000,000 days after any delivery date.
populate_from_grn(D, g) ==
    LET grn == D.grns[g]
        trade == D.trades[grn.trade]
        bennu_fees ==
            IF trade.bennu_fees_payer = "buyer" THEN trade.bennu_fees
            ELSE IF trade.bennu_fees_payer = "split" THEN trade.bennu_fees \div 2
            ELSE 0
    IN  [raised |-> trade.payment_terms_days > 3000000,
         invoice |->
            [grn |-> g, trade |-> grn.trade,
             quantity_kg |-> grn.net_weight_kg,
             unit_price |-> trade.selling_price,
             bennu_fees |-> bennu_fees,
             logistics_cost |-> trade.transport_cost_per_kg * grn.net_weight_kg,
             weighbridge_cost |-> trade.weighbridge_cost,
             subtotal |-> 0, total_amount |-> 0, amount_paid |-> 0, amount_due |-> 0,
             payment_status |-> "unpaid", status |-> "issued",
             due_date |-> grn.delivery_date + trade.payment_terms_days,
             invoice_number |-> NoNumber, created_at |-> today]]

InvoicesOfGrn(D, g) ==
    Indexes(D.invoices, LAMBDA i : i.grn = g)

(***************************************************************************)
(* accounting/signals.py                                                   *)
(***************************************************************************)
\* An invoice generation that does not look for an existing invoice of the GRN.
create_invoice_for_grn_unchecked(D, g) ==
    LET p == populate_from_grn(D, g)
        D1 == Invoice_insert(D, p.invoice)
        D2 == [D1 EXCEPT !.journal = Insert(@,
                  [entry_type |-> "sale", invoice |-> Len(D1.invoices),
                   amount |-> D1.invoices[Len(D1.invoices)].total_amount])]
    IN  IF p.raised
        THEN [raised |-> TRUE, db |-> D]
        ELSE [raised |-> FALSE, db |-> D2]

\* _create_invoice_for_grn: the database after it, and whether it raised.  The
\* INSERT comes after the check for an existing invoice, so the OneToOne constraint
\* on Invoice.grn cannot reject it in a sequential run.
create_invoice_for_grn(D, g) ==
    IF InvoicesOfGrn(D, g) # {}
    THEN [raised |-> FALSE, db |-> D]
    ELSE LET p == populate_from_grn(D, g)
             D1 == Invoice_insert(D, p.invoice)
             D2 == [D1 EXCEPT !.journal = Insert(@,
                       [entry_type |-> "sale", invoice |-> Len(D1.invoices),
                        amount |-> D1.invoices[Len(D1.invoices)].total_amount])]
         IN  IF p.raised
             THEN [raised |-> TRUE, db |-> D]
             ELSE [raised |-> FALSE, db |-> D2]

\* create_invoice_on_grn (created = True): whatever _create_invoice_for_grn raises
\* is printed and dropped.  An exception raised before the INSERT leaves the
\* enclosing transaction usable.
create_invoice_on_grn(D, g) ==
    create_invoice_for_grn(D, g).db

\* serializer.save() of a GoodsReceivedNote, then its post_save receivers
\* (trade/signals.py handle_grn_creation, accounting/signals.py
\* create_invoice_on_grn; they commute).  The delivery is dated today.
GoodsReceivedNote_create(D, t, w) ==
    LET D1 == [D EXCEPT !.grns = Append(@,
                  [trade |-> t, net_weight_kg |-> w, delivery_date |-> today])]
    IN  create_invoice_on_grn(LedgerEntry_create(D1, "grn_created"), Len(D1.grns))

\* invoice.payments.filter(status='completed').aggregate(Sum('amount'))
total_paid(D, i) ==
    SumBag(D.payments,
           LAMBDA p : IF p.invoice = i /\ p.status = "completed" THEN p.amount ELSE 0)

\* update_invoice_on_payment (created = True), for the new payment row p; invoice
\* is instance.invoice, the Invoice the serializer loaded when it validated.
update_invoice_on_payment(D, p, invoice) ==
    LET i == p.invoice
        paid == total_paid(D, i)
        updated == update_payment_status(
            [invoice EXCEPT !.amount_paid = paid,
                            !.amount_due = invoice.total_amount - paid])
    IN  IF p.status # "completed" THEN D
        ELSE Invoice_save(D, i, updated,
                          {"amount_paid", "amount_due", "payment_status", "status"})

\* create_payment_journal_entry (created = True): the payment is new, so no
\* journal entry relates to it yet.
create_payment_journal_entry(D, p) ==
    IF p.status # "completed"
    THEN D
    ELSE [D EXCEPT !.journal = Insert(@,
             [entry_type |-> "payment", invoice |-> p.invoice,
              amount |-> p.amount])]

\* A completion check that does not look at the status of the trade.
check_trade_completion_any_status(D, p) ==
    LET t == D.invoices[p.invoice].trade
        trade == D.trades[t]
    IN  IF p.status = "completed" /\ unpaid_invoices(D, t) = {}
        THEN Trade_save(D, t, [trade EXCEPT !.status = "completed"], {"status"})
        ELSE D

\* check_trade_completion
check_trade_completion(D, p) ==
    LET t == D.invoices[p.invoice].trade
        trade == D.trades[t]
    IN  IF /\ p.status = "completed"
           /\ unpaid_invoices(D, t) = {}
           /\ trade.status = "delivered"
        THEN Trade_save(D, t, [trade EXCEPT !.status = "completed"], {"status"})
        ELSE D

(***************************************************************************)
(* trade/signals.py: receiver of TradeFinancing's post_save                *)
(***************************************************************************)
\* handle_trade_financing (created = True) for financing row k, with acc the
\* InvestorAccount instance the serializer loaded.  Raises what allocate_to_trade
\* raises.
handle_trade_financing(D, k, acc) ==
    LET fin == D.financings[k]
        t == fin.trade
        alloc == allocate_to_trade(acc, fin.allocated_amount)
        D1 == LedgerEntry_create(
                  [D EXCEPT !.accounts[fin.investor_account] = alloc.account],
                  "trade_allocation")
        trade == D1.trades[t]
    IN  IF alloc.raised THEN [raised |-> TRUE, db |-> D]
        ELSE IF trade.requires_financing /\ is_fully_financed(D1, t)
        THEN [raised |-> FALSE,
              db |-> Trade_save(D1, t,
                        [trade EXCEPT !.financing_complete = TRUE,
                                      !.status = "pending_allocation"],
                        {"financing_complete", "status"})]
        ELSE [raised |-> FALSE, db |-> D1]

\* TradeFinancingViewSet.perform_create inside its transaction.atomic():
\* TradeFinancing.save (INSERT, rejected by unique_together for a second row of
\* the same trade and account), then the receiver.  A raise rolls everything back.
TradeFinancing_create(D, t, a, amount, acc) ==
    LET fin == [trade |-> t, investor_account |-> a, allocated_amount |-> amount,
                margin_earned |-> 0, investor_margin |-> 0, bennu_margin |-> 0]
        D1 == [D EXCEPT !.financings = Append(@, fin)]
        r == handle_trade_financing(D1, Len(D1.financings), acc)
        duplicate == \E k \in FinancingsOf(D, t) : D.financings[k].investor_account = a
    IN  IF duplicate \/ r.raised
        THEN [raised |-> TRUE, db |-> D]
        ELSE r

(***************************************************************************)
(* trade/views.py: the writes of the delivery endpoints, on the Trade      *)
(* instance and the delivered total the request read before writing.       *)
(***************************************************************************)
\* create_delivery_batch, the transaction.atomic() block (lines 127-162)
delivery_batch_write(D, t, w, trade, so_far) ==
    LET D1 == GoodsReceivedNote_create(D, t, w)
        first == trade.status = "ready_for_delivery"
        tr1 == IF first THEN [trade EXCEPT !.status = "in_transit"] ELSE trade
        D2 == IF first THEN Trade_save(D1, t, tr1, {"status"}) ELSE D1
        fully == so_far + w >= trade.quantity_kg
    IN  IF fully
        THEN Trade_save(D2, t, [tr1 EXCEPT !.status = "delivered"], {"status"})
        ELSE D2

\* GoodsReceivedNoteViewSet.perform_create after its quantity check (lines
\* 1053-1074); loss is gross_weight_kg - net_weight_kg of the GRN, booked on the
\* trade (Trade.save derives loss_cost from loss_quantity_kg).
grn_create_write(D, t, w, loss, trade, so_far) ==
    LET D1 == GoodsReceivedNote_create(D, t, w)
        tr0 == [trade EXCEPT !.loss_quantity_kg = @ + loss]
        tr1 == IF so_far + w >= trade.quantity_kg
               THEN [tr0 EXCEPT !.status = "delivered"]
               ELSE IF trade.status = "ready_for_delivery"
               THEN [tr0 EXCEPT !.status = "in_transit"]
               ELSE tr0
    IN  Trade_save(D1, t, tr1, AllTradeFields)

Sequential ==
    UNCHANGED <<today, handler_order, rounding, resaves, procs>>

(***************************************************************************)
(* Operations, each a whole request.                                       *)
(***************************************************************************)
\* The notes a progress_status request may carry: none (request.data.get('notes',
\* '')) or some; they matter for a trade that carries its audit trail only.
RequestNotes(t) ==
    IF HasNotes(trades[t]) THEN {"", "checked"} ELSE {""}

\* TradeViewSet.progress_status; when the trade moves to 'in_transit' the view
\* saves the vehicle fields, which sends post_save once more.
progress_status(t) ==
    \E notes \in RequestNotes(t) :
        LET r == progress_to_next_status(DB, t, notes)
            trade == r.db.trades[t]
        IN  /\ ~r.raised
            /\ Commit(IF trade.status = "in_transit"
                      THEN Trade_save(r.db, t, trade, {})
                      ELSE r.db)
            /\ Sequential

\* TradeViewSet.quick_approve
quick_approve(t) ==
    LET trade == trades[t]
        status == IF trade.requires_financing /\ ~trade.financing_complete
                  THEN "approved"
                  ELSE "ready_for_delivery"
    IN  /\ trade.status = "pending_approval"
        /\ Commit(Trade_save(DB, t,
                             add_note([trade EXCEPT !.status = status],
                                      <<"Approved">>, "Approved"),
                             AllTradeFields))
        /\ Sequential

\* TradeViewSet.quick_reject
quick_reject(t) ==
    /\ trades[t].status \in {"pending_approval", "draft"}
    /\ Commit(Trade_save(DB, t,
                         add_note([trades[t] EXCEPT !.status = "rejected"],
                                  <<"Rejected">>, "Rejected"),
                         AllTradeFields))
    /\ Sequential

\* TradeViewSet.update (PUT/PATCH of a field that is not modelled, such as remarks):
\* serializer.save() calls Trade.save().
update_trade(t) ==
    /\ trades[t].status = "completed" => resaves < MaxResaves
    /\ resaves' = IF trades[t].status = "completed" THEN resaves + 1 ELSE resaves
    /\ Commit(Trade_save(DB, t, trades[t], AllTradeFields))
    /\ UNCHANGED <<today, handler_order, rounding, procs>>

\* TradeViewSet.partial_update (PATCH) with a status: TradeSerializer lists status
\* among its writable fields and validate looks at the hub and the two prices only,
\* so serializer.save() sets the status sent and calls Trade.save().  No other
\* operation sets 'cancelled'.  A PATCH that sends the current status is a plain
\* update of the trade.
partial_update_status(t, status) ==
    /\ trades[t].status \in {"completed", "cancelled"} => resaves < MaxResaves
    /\ resaves' = IF trades[t].status \in {"completed", "cancelled"}
                  THEN resaves + 1 ELSE resaves
    /\ Commit(Trade_save(DB, t, [trades[t] EXCEPT !.status = status], AllTradeFields))
    /\ UNCHANGED <<today, handler_order, rounding, procs>>

\* TradeViewSet.mark_completed
mark_completed(t) ==
    /\ trades[t].status = "delivered"
    /\ unpaid_invoices(DB, t) = {}
    /\ Commit(Trade_save(DB, t, [trades[t] EXCEPT !.status = "completed"], {"status"}))
    /\ Sequential

\* TradeViewSet.create_delivery_batch
create_delivery_batch(t, w) ==
    LET trade == trades[t]
        so_far == delivered_so_far(DB, t)
        remaining_qty == trade.quantity_kg - so_far
    IN  /\ trade.status \in {"ready_for_delivery", "in_transit", "delivered"}
        /\ remaining_qty > 0
        /\ w > 0
        /\ w <= remaining_qty
        /\ Commit(delivery_batch_write(DB, t, w, trade, so_far))
        /\ Sequential

\* TradeViewSet.create_delivery_receipt
create_delivery_receipt(t, w) ==
    LET trade == trades[t]
        D1 == GoodsReceivedNote_create(DB, t, w)
    IN  /\ trade.status \in {"in_transit", "delivered"}
        /\ GrnsOf(DB, t) = {}
        /\ Commit(IF trade.status = "in_transit"
                  THEN Trade_save(D1, t, [trade EXCEPT !.status = "delivered"],
                                  AllTradeFields)
                  ELSE D1)
        /\ Sequential

\* GoodsReceivedNoteViewSet.perform_create (POST of a GRN for any trade)
grn_perform_create(t, w, loss) ==
    LET so_far == delivered_so_far(DB, t)
    IN  /\ w <= trades[t].quantity_kg - so_far
        /\ Commit(grn_create_write(DB, t, w, loss, trades[t], so_far))
        /\ Sequential

\* TradeFinancingViewSet.perform_create
create_financing(t, a, amount) ==
    LET r == TradeFinancing_create(DB, t, a, amount, accounts[a])
    IN  /\ ~r.raised
        /\ Commit(r.db)
        /\ Sequential

\* PaymentSerializer.validate: whether it raises ValidationError.  The two tests
\* are made under `if invoice and amount`, and a Decimal of zero is false.
PaymentSerializer_validate(inv, amount) ==
    /\ amount # 0
    /\ amount > inv.amount_due \/ amount <= 0

\* PaymentViewSet.create: PaymentSerializer.validate, Payment.save with the default
\* status 'completed', then the three post_save receivers in the order in which
\* accounting/signals.py defines them.
record_payment(i, amount) ==
    LET p == [invoice |-> i, amount |-> amount, status |-> "completed"]
        D1 == [DB EXCEPT !.payments = Insert(@, p)]
    IN  /\ ~PaymentSerializer_validate(invoices[i], amount)
        /\ Commit(check_trade_completion(
                      create_payment_journal_entry(
                          update_invoice_on_payment(D1, p, invoices[i]), p), p))
        /\ Sequential

\* PaymentViewSet.create with status 'pending' (status is a writable field of
\* PaymentSerializer): validate, Payment.save, and the three post_save receivers,
\* each of which returns at once for a payment that is not completed.
record_pending_payment(i, amount) ==
    LET p == [invoice |-> i, amount |-> amount, status |-> "pending"]
        D1 == [DB EXCEPT !.payments = Insert(@, p)]
    IN  /\ ~PaymentSerializer_validate(invoices[i], amount)
        /\ Commit(check_trade_completion(
                      create_payment_journal_entry(
                          update_invoice_on_payment(D1, p, invoices[i]), p), p))
        /\ Sequential

\* PaymentViewSet.partial_update (PATCH) of a pending payment with status
\* 'completed': validate finds no amount in the data and tests nothing;
\* Payment.save sends post_save with created = False, on which
\* update_invoice_on_payment and create_payment_journal_entry return at once and
\* check_trade_completion runs.
complete_payment(pay) ==
    LET p == [pay EXCEPT !.status = "completed"]
        D1 == [DB EXCEPT !.payments = Insert(@ (-) SetToBag({pay}), p)]
    IN  /\ BagIn(pay, payments)
        /\ pay.status = "pending"
        /\ Commit(check_trade_completion(D1, p))
        /\ Sequential

\* accounting/tasks.py check_overdue_invoices
check_overdue_invoices ==
    LET selected(inv) ==
            /\ inv.status \in {"sent", "issued", "partially_paid"}
            /\ inv.due_date < today
            /\ inv.payment_status \in {"unpaid", "partial"}
        step(Dk, i) ==
            LET inv == Dk.invoices[i]
            IN  IF selected(inv) /\ update_payment_status(inv).payment_status
                                        # inv.payment_status
                THEN Invoice_save(Dk, i, update_payment_status(inv), AllInvoiceFields)
                ELSE Dk
        run[i \in 0..Len(invoices)] ==
            IF i = 0 THEN DB ELSE step(run[i - 1], i)
    IN  /\ \E i \in 1..Len(invoices) : selected(invoices[i])
        /\ Commit(run[Len(invoices)])
        /\ Sequential

\* InvoiceViewSet.cancel_invoice: refused for a paid invoice; otherwise the
\* status is set to 'cancelled' in memory and Invoice.save recomputes the amounts
\* and the payment status before it writes the row.
cancel_invoice(i) ==
    /\ invoices[i].payment_status # "paid"
    /\ Commit(Invoice_save(DB, i, [invoices[i] EXCEPT !.status = "cancelled"],
                           AllInvoiceFields))
    /\ Sequential

\* A direct call of _create_invoice_for_grn for an existing GRN.
call_create_invoice_for_grn(g) ==
    LET r == create_invoice_for_grn(DB, g)
    IN  /\ ~r.raised
        /\ Commit(r.db)
        /\ Sequential

\* manage.py fix_missing_invoices: for every GRN without an invoice, an invoice is
\* built and saved (no journal entry); a GRN whose invoice cannot be built is skipped.
fix_missing_invoices ==
    LET step(Dk, g) ==
            IF InvoicesOfGrn(Dk, g) # {} \/ populate_from_grn(Dk, g).raised
            THEN Dk
            ELSE Invoice_insert(Dk, populate_from_grn(Dk, g).invoice)
        run[g \in 0..Len(grns)] ==
            IF g = 0 THEN DB ELSE step(run[g - 1], g)
    IN  /\ \E g \in 1..Len(grns) : InvoicesOfGrn(DB, g) = {}
        /\ Commit(run[Len(grns)])
        /\ Sequential

\* The clock reaches the next day.  The date is read only to date a delivery and
\* to compare it with Invoice.due_date, so days are counted from the first invoice.
AdvanceDay ==
    /\ today < MaxDay
    /\ invoices # <<>>
    /\ today' = today + 1
    /\ UNCHANGED <<trades, grns, invoices, payments, journal, financings, accounts,
                   ledger, handler_order, rounding, resaves, procs>>

\* Amounts a buyer may pay on invoice i: what is due or, as a first payment, a
\* part of it.
PaymentAmounts(i) ==
    {amount \in {invoices[i].amount_due} \cup
                    (IF invoices[i].amount_paid = 0 THEN PartialPayments ELSE {}) :
        amount > 0}

\* Amounts a payment request may carry, valid or not: nothing, a refund, the amount
\* due, one cent more than the amount due, a part.
PaymentRequestAmounts(i) ==
    {0, -10, invoices[i].amount_due, invoices[i].amount_due + 10} \cup PartialPayments

InitialAccounts ==
    [a \in Investors |->
        [available_balance |-> IF a = "inv1" THEN 10000 ELSE 5000,
         total_utilized |-> 0, total_margin_earned |-> 0]]

InitCommon ==
    /\ grns = <<>>
    /\ invoices = <<>>
    /\ payments = EmptyBag
    /\ journal = EmptyBag
    /\ financings = <<>>
    /\ accounts = InitialAccounts
    /\ today = 0
    /\ resaves = 0
    /\ procs = [p \in Procs |-> [pc |-> "idle"]]

\* One trade has been entered (status 'draft'); the investors have deposited.
\* The order of the two receivers of Trade's post_save can only be observed on a
\* trade with financings, and the rounding mode only on amounts that are not whole
\* cents, which FinancedTrade never produces: each is left open where it matters,
\* the rounding mode for one of the trades whose amounts are not whole cents.
Init ==
    /\ InitCommon
    /\ \E input \in TradeInputs :
          /\ IF input.requires_financing
             THEN /\ handler_order \in {"trade_first", "investors_first"}
                  /\ rounding = "half_even"
             ELSE /\ handler_order = "trade_first"
                  /\ IF input = SplitFeeTrade
                     THEN rounding \in {"half_even", "half_up"}
                     ELSE rounding = "half_even"
          /\ trades = [t \in {1} |-> NewTrade(input)]
    /\ ledger = [e \in LedgerTypes |-> 0]

Next ==
    \/ \E t \in DOMAIN trades : progress_status(t)
    \/ \E t \in DOMAIN trades : quick_approve(t)
    \/ \E t \in DOMAIN trades : quick_reject(t)
    \/ \E t \in DOMAIN trades : update_trade(t)
    \/ \E t \in DOMAIN trades : mark_completed(t)
    \/ \E t \in DOMAIN trades, w \in Weights : create_delivery_batch(t, w)
    \/ \E t \in DOMAIN trades, w \in Weights : create_delivery_receipt(t, w)
    \/ \E t \in DOMAIN trades, w \in Weights : grn_perform_create(t, w, 0)
    \/ \E t \in DOMAIN trades, a \in Investors, amount \in FinancingAmounts :
          create_financing(t, a, amount)
    \/ \E i \in 1..Len(invoices) : \E amount \in PaymentAmounts(i) :
          record_payment(i, amount)
    \/ \E g \in 1..Len(grns) : call_create_invoice_for_grn(g)
    \/ check_overdue_invoices
    \/ fix_missing_invoices
    \/ AdvanceDay

Spec ==
    Init /\ [][Next]_vars

(***************************************************************************)
(* Concurrent requests.  No endpoint takes a row lock (select_for_update)  *)
(* or updates in place (F expressions): a request reads, and later writes  *)
(* what it computed from what it read, whether or not both happen inside   *)
(* one transaction.atomic().  A request in flight holds what it read in    *)
(* procs; another request may commit in between.                           *)
(***************************************************************************)
Idle ==
    [pc |-> "idle"]

Concurrent ==
    UNCHANGED <<today, handler_order, rounding, resaves>>

\* TradeFinancingSerializer.create, up to InvestorAccount.objects.get (line 101)
begin_create_financing(p, t, a, amount) ==
    /\ procs[p] = Idle
    /\ procs' = [procs EXCEPT ![p] =
          [pc |-> "financing", trade |-> t, investor_account |-> a,
           amount |-> amount, account |-> accounts[a]]]
    /\ UNCHANGED <<trades, grns, invoices, payments, journal, financings, accounts,
                   ledger>>
    /\ Concurrent

\* ... and from super().create on: the INSERT and handle_trade_financing, which
\* checks and saves the InvestorAccount instance loaded before.
finish_create_financing(p) ==
    LET r == TradeFinancing_create(DB, procs[p].trade, procs[p].investor_account,
                                   procs[p].amount, procs[p].account)
    IN  /\ procs[p].pc = "financing"
        /\ procs' = [procs EXCEPT ![p] = Idle]
        /\ Commit(r.db)
        /\ Concurrent

\* create_delivery_batch, lines 88-125: the status and quantity checks
begin_create_delivery_batch(p, t, w) ==
    LET trade == trades[t]
        so_far == delivered_so_far(DB, t)
        remaining_qty == trade.quantity_kg - so_far
    IN  /\ procs[p] = Idle
        /\ trade.status \in {"ready_for_delivery", "in_transit", "delivered"}
        /\ remaining_qty > 0
        /\ w > 0
        /\ w <= remaining_qty
        /\ procs' = [procs EXCEPT ![p] =
              [pc |-> "delivery_batch", trade_id |-> t, net_weight_kg |-> w,
               trade |-> trade, delivered_so_far |-> so_far]]
        /\ UNCHANGED <<trades, grns, invoices, payments, journal, financings,
                       accounts, ledger>>
        /\ Concurrent

\* create_delivery_batch, lines 127-162: the transaction.atomic() block
finish_create_delivery_batch(p) ==
    /\ procs[p].pc = "delivery_batch"
    /\ procs' = [procs EXCEPT ![p] = Idle]
    /\ Commit(delivery_batch_write(DB, procs[p].trade_id, procs[p].net_weight_kg,
                                   procs[p].trade, procs[p].delivered_so_far))
    /\ Concurrent

\* GoodsReceivedNoteViewSet.perform_create, lines 1037-1051: the quantity check
begin_grn_perform_create(p, t, w) ==
    LET so_far == delivered_so_far(DB, t)
    IN  /\ procs[p] = Idle
        /\ w <= trades[t].quantity_kg - so_far
        /\ procs' = [procs EXCEPT ![p] =
              [pc |-> "grn_create", trade_id |-> t, net_weight_kg |-> w,
               trade |-> trades[t], delivered_so_far |-> so_far]]
        /\ UNCHANGED <<trades, grns, invoices, payments, journal, financings,
                       accounts, ledger>>
        /\ Concurrent

\* GoodsReceivedNoteViewSet.perform_create, lines 1053-1074
finish_grn_perform_create(p) ==
    /\ procs[p].pc = "grn_create"
    /\ procs' = [procs EXCEPT ![p] = Idle]
    /\ Commit(grn_create_write(DB, procs[p].trade_id, procs[p].net_weight_kg, 0,
                               procs[p].trade, procs[p].delivered_so_far))
    /\ Concurrent

\* GoodsReceivedNoteViewSet.perform_create from its quantity check to
\* Invoice.generate_invoice_number, inside its transaction: the GRN is saved, its
\* post_save receiver builds the invoice and Invoice.save counts the invoices of
\* today that are committed.
begin_grn_invoice(p, t, w) ==
    LET so_far == delivered_so_far(DB, t)
    IN  /\ procs[p] = Idle
        /\ w <= trades[t].quantity_kg - so_far
        /\ trades[t].payment_terms_days <= 3000000
        /\ procs' = [procs EXCEPT ![p] =
              [pc |-> "grn_invoice", trade_id |-> t, net_weight_kg |-> w,
               trade |-> trades[t], delivered_so_far |-> so_far,
               invoice_number |-> generate_invoice_number(DB)]]
        /\ UNCHANGED <<trades, grns, invoices, payments, journal, financings,
                       accounts, ledger>>
        /\ Concurrent

\* Whether the unique index on Invoice.invoice_number rejects number.
invoice_number_taken(D, number) ==
    \E i \in 1..Len(D.invoices) : D.invoices[i].invoice_number = number

\* ... and from the INSERT of the invoice to the end of the transaction.  When the
\* number is taken the INSERT raises IntegrityError inside Model.save, which marks
\* the transaction for rollback; create_invoice_on_grn drops the exception, the
\* next query (trade.save) raises TransactionManagementError and the request
\* fails with nothing written.
finish_grn_invoice(p) ==
    LET D1 == grn_create_write(DB, procs[p].trade_id, procs[p].net_weight_kg, 0,
                               procs[p].trade, procs[p].delivered_so_far)
        D2 == [D1 EXCEPT !.invoices[Len(D1.invoices)].invoice_number =
                             procs[p].invoice_number]
    IN  /\ procs[p].pc = "grn_invoice"
        /\ procs' = [procs EXCEPT ![p] = Idle]
        /\ Commit(IF invoice_number_taken(DB, procs[p].invoice_number)
                  THEN DB
                  ELSE D2)
        /\ Concurrent

\* PaymentViewSet.create up to serializer.is_valid: PaymentSerializer.validate on
\* the invoice as it is read now.
begin_record_payment(p, i, amount) ==
    /\ procs[p] = Idle
    /\ ~PaymentSerializer_validate(invoices[i], amount)
    /\ procs' = [procs EXCEPT ![p] =
          [pc |-> "payment", invoice_id |-> i, amount |-> amount,
           invoice |-> invoices[i]]]
    /\ UNCHANGED <<trades, grns, invoices, payments, journal, financings, accounts,
                   ledger>>
    /\ Concurrent

\* ... and serializer.save(): the INSERT and the three post_save receivers.
finish_record_payment(p) ==
    LET pay == [invoice |-> procs[p].invoice_id, amount |-> procs[p].amount,
                status |-> "completed"]
        D1 == [DB EXCEPT !.payments = Insert(@, pay)]
    IN  /\ procs[p].pc = "payment"
        /\ procs' = [procs EXCEPT ![p] = Idle]
        /\ Commit(check_trade_completion(
                      create_payment_journal_entry(
                          update_invoice_on_payment(D1, pay, procs[p].invoice), pay),
                      pay))
        /\ Concurrent

\* Two financed trades have been entered; investors allocate to them concurrently.
InitFinancing ==
    /\ InitCommon
    /\ handler_order \in {"trade_first", "investors_first"}
    /\ rounding = "half_even"
    /\ trades = [t \in {1, 2} |-> NewTrade(FinancedTrade)]
    /\ ledger = [e \in LedgerTypes |-> 0]

NextFinancing ==
    \/ \E p \in Procs, t \in DOMAIN trades, a \in Investors,
          amount \in FinancingAmounts : begin_create_financing(p, t, a, amount)
    \/ \E p \in Procs : finish_create_financing(p)

SpecFinancing ==
    InitFinancing /\ [][NextFinancing]_vars

\* One trade without financing has been entered; it is approved and deliveries
\* are recorded for it concurrently.
InitDelivery ==
    /\ InitCommon
    /\ handler_order = "trade_first"
    /\ rounding \in {"half_even", "half_up"}
    /\ trades = [t \in {1} |-> NewTrade(SplitFeeTrade)]
    /\ ledger = [e \in LedgerTypes |-> 0]

NextDelivery ==
    \/ \E t \in DOMAIN trades : progress_status(t)
    \/ \E t \in DOMAIN trades : quick_approve(t)
    \/ \E p \in Procs, t \in DOMAIN trades, w \in Weights :
          begin_create_delivery_batch(p, t, w)
    \/ \E p \in Procs : finish_create_delivery_batch(p)
    \/ \E p \in Procs, t \in DOMAIN trades, w \in Weights :
          begin_grn_perform_create(p, t, w)
    \/ \E p \in Procs : finish_grn_perform_create(p)

SpecDelivery ==
    InitDelivery /\ [][NextDelivery]_vars

\* One trade has been entered; deliveries are recorded for it and payment requests
\* of any amount are made against its invoices.
InitPayment ==
    /\ InitCommon
    /\ handler_order = "trade_first"
    /\ rounding \in {"half_even", "half_up"}
    /\ trades = [t \in {1} |-> NewTrade(SplitFeeTrade)]
    /\ ledger = [e \in LedgerTypes |-> 0]

NextPayment ==
    \/ \E t \in DOMAIN trades, w \in Weights : grn_perform_create(t, w, 0)
    \/ \E i \in 1..Len(invoices) : \E amount \in PaymentRequestAmounts(i) :
          /\ BagCardinality(payments) < MaxPayments
          /\ record_payment(i, amount)

SpecPayment ==
    InitPayment /\ [][NextPayment]_vars

\* One trade has been entered; deliveries are recorded for it and its invoices
\* are paid by concurrent requests.
InitConcurrentPayment ==
    /\ InitCommon
    /\ handler_order = "trade_first"
    /\ rounding = "half_even"
    /\ trades = [t \in {1} |-> NewTrade(FinancedTrade)]
    /\ ledger = [e \in LedgerTypes |-> 0]

NextConcurrentPayment ==
    \/ \E t \in DOMAIN trades, w \in Weights : grn_perform_create(t, w, 0)
    \/ \E p \in Procs, i \in 1..Len(invoices) : \E amount \in PaymentAmounts(i) :
          begin_record_payment(p, i, amount)
    \/ \E p \in Procs : finish_record_payment(p)

SpecConcurrentPayment ==
    InitConcurrentPayment /\ [][NextConcurrentPayment]_vars

\* One financed trade of a given margin has been entered; it is financed,
\* moved along, delivered (with or without loss) and paid.
InitDistribution ==
    /\ InitCommon
    /\ handler_order = "trade_first"
    /\ rounding \in {"half_even", "half_up"}
    /\ \E input \in MarginTradeInputs : trades = [t \in {1} |-> NewTrade(input)]
    /\ ledger = [e \in LedgerTypes |-> 0]

NextDistribution ==
    \/ \E t \in DOMAIN trades : progress_status(t)
    \/ \E t \in DOMAIN trades : quick_approve(t)
    \/ \E t \in DOMAIN trades, a \in Investors, amount \in FinancingAmounts :
          create_financing(t, a, amount)
    \/ \E t \in DOMAIN trades, w \in Weights, loss \in Losses :
          grn_perform_create(t, w, loss)
    \/ \E i \in 1..Len(invoices) : \E amount \in PaymentAmounts(i) :
          record_payment(i, amount)

SpecDistribution ==
    InitDistribution /\ [][NextDistribution]_vars

\* Statuses a PATCH of trade t may send: the one it has (a plain update), or one
\* of the two that end a trade.
PatchStatuses(t) ==
    {trades[t].status, "cancelled", "rejected"}

\* One financed trade has been entered; it is financed, moved along, delivered in
\* part or in full, and rejected or cancelled at any point.
InitCancellation ==
    /\ InitCommon
    /\ handler_order = "trade_first"
    /\ rounding = "half_even"
    /\ trades = [t \in {1} |-> NewTrade(FinancedTrade)]
    /\ ledger = [e \in LedgerTypes |-> 0]

NextCancellation ==
    \/ \E t \in DOMAIN trades : progress_status(t)
    \/ \E t \in DOMAIN trades : quick_approve(t)
    \/ \E t \in DOMAIN trades : quick_reject(t)
    \/ \E t \in DOMAIN trades, a \in Investors, amount \in FinancingAmounts :
          create_financing(t, a, amount)
    \/ \E t \in DOMAIN trades, w \in Weights : grn_perform_create(t, w, 0)
    \/ \E t \in DOMAIN trades : \E status \in PatchStatuses(t) :
          partial_update_status(t, status)

SpecCancellation ==
    InitCancellation /\ [][NextCancellation]_vars

\* One trade has been entered, with its audit trail (empty); it is moved along by
\* the status endpoints, delivered in one or more batches, paid and completed.
InitAudit ==
    /\ InitCommon
    /\ handler_order = "trade_first"
    /\ rounding = "half_even"
    /\ trades = [t \in {1} |->
                    ("internal_notes" :> <<>>) @@ NewTrade(SplitFeeTrade)]
    /\ ledger = [e \in LedgerTypes |-> 0]

NextAudit ==
    \/ \E t \in DOMAIN trades : progress_status(t)
    \/ \E t \in DOMAIN trades : quick_approve(t)
    \/ \E t \in DOMAIN trades : quick_reject(t)
    \/ \E t \in DOMAIN trades, w \in Weights : create_delivery_batch(t, w)
    \/ \E i \in 1..Len(invoices) : \E amount \in PaymentAmounts(i) :
          record_payment(i, amount)
    \/ \E t \in DOMAIN trades : mark_completed(t)

SpecAudit ==
    InitAudit /\ [][NextAudit]_vars

\* One trade of any of the cost inputs has been entered; it is moved along,
\* delivered with or without loss, and saved again.
InitCosts ==
    /\ InitCommon
    /\ handler_order = "trade_first"
    /\ rounding \in {"half_even", "half_up"}
    /\ \E input \in CostTradeInputs : trades = [t \in {1} |-> NewTrade(input)]
    /\ ledger = [e \in LedgerTypes |-> 0]

NextCosts ==
    \/ \E t \in DOMAIN trades : progress_status(t)
    \/ \E t \in DOMAIN trades : quick_approve(t)
    \/ \E t \in DOMAIN trades : update_trade(t)
    \/ \E t \in DOMAIN trades, w \in Weights : create_delivery_batch(t, w)
    \/ \E t \in DOMAIN trades, w \in Weights, loss \in Losses :
          grn_perform_create(t, w, loss)

SpecCosts ==
    InitCosts /\ [][NextCosts]_vars

\* One trade has been entered; GRNs are posted for it concurrently, on one day
\* or the next.
InitInvoiceNumber ==
    /\ InitCommon
    /\ handler_order = "trade_first"
    /\ rounding = "half_even"
    /\ trades = [t \in {1} |-> NewTrade(SplitFeeTrade)]
    /\ ledger = [e \in LedgerTypes |-> 0]

NextInvoiceNumber ==
    \/ \E p \in Procs, t \in DOMAIN trades, w \in Weights : begin_grn_invoice(p, t, w)
    \/ \E p \in Procs : finish_grn_invoice(p)
    \/ AdvanceDay

SpecInvoiceNumber ==
    InitInvoiceNumber /\ [][NextInvoiceNumber]_vars

\* One trade has been entered; it is moved along and delivered, and payments are
\* recorded against its invoices, completed at once or pending and completed later.
InitPaymentStatus ==
    /\ InitCommon
    /\ handler_order = "trade_first"
    /\ rounding = "half_even"
    /\ trades = [t \in {1} |-> NewTrade(SplitFeeTrade)]
    /\ ledger = [e \in LedgerTypes |-> 0]

NextPaymentStatus ==
    \/ \E t \in DOMAIN trades : progress_status(t)
    \/ \E t \in DOMAIN trades : quick_approve(t)
    \/ \E t \in DOMAIN trades, w \in Weights : grn_perform_create(t, w, 0)
    \/ \E i \in 1..Len(invoices) : \E amount \in PaymentAmounts(i) :
          /\ BagCardinality(payments) < MaxPayments
          /\ record_payment(i, amount)
    \/ \E i \in 1..Len(invoices) : \E amount \in PaymentAmounts(i) :
          /\ BagCardinality(payments) < MaxPayments
          /\ record_pending_payment(i, amount)
    \/ \E pay \in BagToSet(payments) : complete_payment(pay)

SpecPaymentStatus ==
    InitPaymentStatus /\ [][NextPaymentStatus]_vars

\* One trade has been entered; it is moved along and delivered, its invoices are
\* paid in part or in full, fall overdue and are cancelled.
InitCancelInvoice ==
    /\ InitCommon
    /\ handler_order = "trade_first"
    /\ rounding = "half_even"
    /\ trades = [t \in {1} |-> NewTrade(SplitFeeTrade)]
    /\ ledger = [e \in LedgerTypes |-> 0]

NextCancelInvoice ==
    \/ \E t \in DOMAIN trades : progress_status(t)
    \/ \E t \in DOMAIN trades : quick_approve(t)
    \/ \E t \in DOMAIN trades, w \in Weights : grn_perform_create(t, w, 0)
    \/ \E i \in 1..Len(invoices) : \E amount \in PaymentAmounts(i) :
          /\ BagCardinality(payments) < MaxPayments
          /\ record_payment(i, amount)
    \/ \E i \in 1..Len(invoices) : cancel_invoice(i)
    \/ check_overdue_invoices
    \/ AdvanceDay

SpecCancelInvoice ==
    InitCancelInvoice /\ [][NextCancelInvoice]_vars

\* One trade has been entered, with or without a need of financing or vouchers
\* and with its audit trail; it is moved along, financed, delivered, paid,
\* rejected or cancelled.
InitTransitions ==
    /\ InitCommon
    /\ handler_order = "trade_first"
    /\ rounding = "half_even"
    /\ \E input \in {FinancedTrade, SplitFeeTrade, VoucherTrade} :
          trades = [t \in {1} |-> ("internal_notes" :> <<>>) @@ NewTrade(input)]
    /\ ledger = [e \in LedgerTypes |-> 0]

NextTransitions ==
    \/ \E t \in DOMAIN trades : progress_status(t)
    \/ \E t \in DOMAIN trades : quick_approve(t)
    \/ \E t \in DOMAIN trades : quick_reject(t)
    \/ \E t \in DOMAIN trades : partial_update_status(t, "cancelled")
    \/ \E t \in DOMAIN trades : create_financing(t, "inv1", 10000)
    \/ \E t \in DOMAIN trades, w \in {4, 6} : create_delivery_batch(t, w)
    \/ /\ BagCardinality(payments) < MaxPayments
       /\ \E i \in 1..Len(invoices) : record_payment(i, invoices[i].amount_due)

SpecTransitions ==
    InitTransitions /\ [][NextTransitions]_vars

(***************************************************************************)
(* Properties.                                                             *)
(***************************************************************************)
\* The database after the step.
DBnext ==
    [trades |-> trades', grns |-> grns', invoices |-> invoices',
     payments |-> payments', journal |-> journal', financings |-> financings',
     accounts |-> accounts', ledger |-> ledger']

EntersCompleted(t) ==
    trades[t].status # "completed" /\ trades'[t].status = "completed"

C2_ResaveOfCompletedTradeChangesNothing ==
    [][\A t \in DOMAIN trades :
          (/\ trades[t].status = "completed"
           /\ FinancingsOf(DB, t) # {}
           /\ \A k \in FinancingsOf(DB, t) : financings[k].margin_earned > 0
           /\ update_trade(t)) =>
              /\ accounts' = accounts
              /\ ledger'["trade_profit"] = ledger["trade_profit"]
              /\ ledger'["bennu_profit"] = ledger["bennu_profit"]]_vars

\* C3: the net weights of a trade's GRNs never add up to more than the ordered
\* quantity, after any sequence of create_delivery_batch, create_delivery_receipt
\* and GRN creation.
C3_DeliveredWithinOrder ==
    \A t \in DOMAIN trades : delivered_so_far(DB, t) <= trades[t].quantity_kg

\* C4: every stored invoice has amount_due = total_amount - amount_paid.
C4_AmountDueIsTotalMinusPaid ==
    \A i \in 1..Len(invoices) :
        invoices[i].amount_due = invoices[i].total_amount - invoices[i].amount_paid

\* C5: a trade never enters 'completed' unless it has at least one GRN and nothing
\* remains to be delivered.
C5_CompletionNeedsFullDelivery ==
    [][\A t \in DOMAIN trades :
          EntersCompleted(t) =>
              /\ GrnsOf(DBnext, t) # {}
              /\ trades'[t].quantity_kg - delivered_so_far(DBnext, t) <= 0]_vars

\* What the financings of account a have taken from it.
AllocatedFrom(a) ==
    SumSeq(financings, LAMBDA f : IF f.investor_account = a THEN f.allocated_amount ELSE 0)

\* C6: under concurrent financing requests against one investor account the balance
\* never goes negative and what was deducted from the account equals the sum of the
\* allocations that succeeded.
C6_DeductedEqualsAllocated ==
    \A a \in Investors :
        /\ accounts[a].available_balance >= 0
        /\ InitialAccounts[a].available_balance - accounts[a].available_balance
               = AllocatedFrom(a)
        /\ accounts[a].total_utilized = AllocatedFrom(a)

\* C7: two concurrent delivery requests never jointly record more than the ordered
\* quantity.
C7_ConcurrentDeliveriesWithinOrder ==
    \A t \in DOMAIN trades :
        SumSeq(grns, LAMBDA g : IF g.trade = t THEN g.net_weight_kg ELSE 0)
            <= trades[t].quantity_kg

\* C8: every stored GRN has exactly one invoice (a GRN whose invoice could not be
\* generated is not stored).
C8_EveryGrnHasOneInvoice ==
    \A g \in 1..Len(grns) : Cardinality(InvoicesOfGrn(DB, g)) = 1

\* C9: calling _create_invoice_for_grn for a GRN leaves exactly one invoice for that
\* GRN, and a call for a GRN that already has an invoice changes no invoice and
\* adds no journal entry.
C9_CreateInvoiceIsIdempotent ==
    [][\A g \in 1..Len(grns) :
          call_create_invoice_for_grn(g) =>
              /\ Cardinality(InvoicesOfGrn(DBnext, g)) = 1
              /\ InvoicesOfGrn(DB, g) # {} =>
                     invoices' = invoices /\ journal' = journal]_vars

\* A GRN with its one invoice and the one 'sale' journal entry of that invoice.
C9_Witness ==
    \E g \in 1..Len(grns) :
        /\ Cardinality(InvoicesOfGrn(DB, g)) = 1
        /\ \A i \in InvoicesOfGrn(DB, g) :
               SumBag(journal, LAMBDA e : IF e.entry_type = "sale" /\ e.invoice = i
                                          THEN 1 ELSE 0) = 1

\* The position of a status in the forward order of the life cycle.
Rank(status) ==
    CASE status = "draft" -> 1
      [] status = "pending_approval" -> 2
      [] status = "approved" -> 3
      [] status = "pending_allocation" -> 4
      [] status = "ready_for_delivery" -> 5
      [] status = "in_transit" -> 6
      [] status = "delivered" -> 7
      [] status = "completed" -> 8
      [] OTHER -> 0

\* C10: a trade's status only moves forward in the order draft, pending_approval,
\* approved, pending_allocation, ready_for_delivery, in_transit, delivered,
\* completed; the only other changes lead into 'cancelled' or 'rejected', which are
\* never left.
C10_StatusOnlyMovesForward ==
    [][\A t \in DOMAIN trades :
          \/ trades'[t].status = trades[t].status
          \/ /\ trades[t].status \notin {"cancelled", "rejected"}
             /\ trades'[t].status \in {"cancelled", "rejected"}
          \/ /\ Rank(trades[t].status) > 0
             /\ Rank(trades'[t].status) > Rank(trades[t].status)]_vars

\* The allocations of the step bring trade t, which requires financing, from not
\* fully financed to fully financed.
BecomesFullyFinanced(t) ==
    /\ trades[t].requires_financing
    /\ ~is_fully_financed(DB, t)
    /\ is_fully_financed(DBnext, t)

\* C11: when a financing allocation makes a trade that requires financing fully
\* financed while it is 'approved' or 'pending_allocation', financing_complete
\* becomes true and the status becomes 'ready_for_delivery'.
C11_FullyFinancedBecomesReady ==
    [][\A t \in DOMAIN trades :
          (/\ trades[t].status \in {"approved", "pending_allocation"}
           /\ BecomesFullyFinanced(t)) =>
              /\ trades'[t].financing_complete
              /\ trades'[t].status = "ready_for_delivery"]_vars

NeedsAllocation(tr) ==
    \/ tr.requires_financing /\ ~tr.financing_complete
    \/ tr.requires_voucher_allocation /\ ~tr.allocation_complete

\* C13: no operation moves a trade into 'ready_for_delivery' while it requires
\* financing that is not complete or voucher allocation that is not complete.
C13_ReadyNeedsPreconditions ==
    [][\A t \in DOMAIN trades :
          (/\ trades[t].status # "ready_for_delivery"
           /\ trades'[t].status = "ready_for_delivery") =>
              ~NeedsAllocation(trades'[t])]_vars

\* C14: progressing a trade from 'approved' succeeds and leads to
\* 'pending_allocation' if financing or voucher allocation is still missing, and
\* to 'ready_for_delivery' otherwise.
C14_ApprovedIsRouted ==
    \A t \in DOMAIN trades :
        trades[t].status = "approved" =>
            LET r == progress_to_next_status(DB, t, "")
            IN  /\ ~r.raised
                /\ r.db.trades[t].status =
                       IF NeedsAllocation(trades[t])
                       THEN "pending_allocation"
                       ELSE "ready_for_delivery"

\* Account a holds an allocation to trade t.
HasFinancing(D, t, a) ==
    \E k \in FinancingsOf(D, t) : D.financings[k].investor_account = a

\* C15: a financing allocation whose amount exceeds the investor's
\* available_balance fails and writes nothing: no TradeFinancing row, no change of
\* the account, no ledger entry, no change of the trade.
C15_OverAllocationWritesNothing ==
    \A t \in DOMAIN trades, a \in Investors, amount \in FinancingAmounts :
        amount > accounts[a].available_balance =>
            LET r == TradeFinancing_create(DB, t, a, amount, accounts[a])
            IN  /\ r.raised
                /\ r.db.financings = financings
                /\ r.db.accounts = accounts
                /\ r.db.ledger = ledger
                /\ r.db.trades = trades

\* After a first allocation, an account that has none on the trade is asked for
\* more than its balance.
C15_Witness ==
    \E t \in DOMAIN trades, a \in Investors, amount \in FinancingAmounts :
        /\ financings # <<>>
        /\ ~HasFinancing(DB, t, a)
        /\ amount > accounts[a].available_balance
        /\ TradeFinancing_create(DB, t, a, amount, accounts[a]).raised

\* C16: a successful financing allocation of amount a decreases the account's
\* available_balance by a, increases its total_utilized by a, leaves the other
\* accounts alone and creates exactly one TradeFinancing row for the trade and
\* the account.
C16_AllocationMovesAmount ==
    [][\A t \in DOMAIN trades, a \in Investors, amount \in FinancingAmounts :
          create_financing(t, a, amount) =>
              /\ accounts'[a].available_balance =
                     accounts[a].available_balance - amount
              /\ accounts'[a].total_utilized = accounts[a].total_utilized + amount
              /\ accounts'[a].total_margin_earned = accounts[a].total_margin_earned
              /\ \A b \in Investors \ {a} : accounts'[b] = accounts[b]
              /\ Len(financings') = Len(financings) + 1
              /\ Cardinality({k \in FinancingsOf(DBnext, t) :
                                  financings'[k].investor_account = a}) = 1
              /\ financings'[Len(financings')].allocated_amount = amount]_vars

\* Account inv1 after one allocation of 5.00 from its 10.00.
C16_Witness ==
    /\ Len(financings) = 1
    /\ financings[1].investor_account = "inv1"
    /\ financings[1].allocated_amount = 5000
    /\ accounts["inv1"].available_balance = 5000
    /\ accounts["inv1"].total_utilized = 5000

\* The sum of f over the allocations of account a to trade t, as stored after the
\* step.
SumOfFinancings(t, a, f(_)) ==
    LET sum[k \in 0..Len(financings')] ==
            IF k = 0 THEN 0
            ELSE sum[k - 1] +
                 (IF financings'[k].trade = t /\ financings'[k].investor_account = a
                  THEN f(financings'[k]) ELSE 0)
    IN  sum[Len(financings')]

\* C17: when a trade with financing allocations enters 'completed', the handlers
\* fired by that save together, for each allocation, decrease the investor's
\* total_utilized by allocated_amount, increase available_balance by
\* allocated_amount + investor_margin and increase total_margin_earned by
\* investor_margin.
C17_CompletionReleasesOnce ==
    [][\A t \in DOMAIN trades :
          (EntersCompleted(t) /\ FinancingsOf(DB, t) # {}) =>
              \A a \in Investors :
                  /\ accounts'[a].total_utilized = accounts[a].total_utilized
                         - SumOfFinancings(t, a, LAMBDA f : f.allocated_amount)
                  /\ accounts'[a].available_balance = accounts[a].available_balance
                         + SumOfFinancings(t, a,
                               LAMBDA f : f.allocated_amount + f.investor_margin)
                  /\ accounts'[a].total_margin_earned = accounts[a].total_margin_earned
                         + SumOfFinancings(t, a, LAMBDA f : f.investor_margin)]_vars

\* C18: the stored margins of every financing satisfy
\* investor_margin + bennu_margin = margin_earned, whether the investor keeps all of
\* the margin (margin percentage within the threshold) or shares it 75/25.
C18_SharesAddUp ==
    \A k \in 1..Len(financings) :
        financings[k].investor_margin + financings[k].bennu_margin
            = financings[k].margin_earned

\* C19: the margins of a financing are zero when it is created, and a step changes
\* them only if they were all zero before it and the trade is 'completed' after
\* it: they are written once, at completion, and never changed afterwards.
Margins(fin) ==
    <<fin.margin_earned, fin.investor_margin, fin.bennu_margin>>

C19_MarginsWrittenOnce ==
    [][/\ \A k \in (Len(financings) + 1)..Len(financings') :
              Margins(financings'[k]) = <<0, 0, 0>>
       /\ \A k \in 1..Len(financings) :
              Margins(financings'[k]) # Margins(financings[k])
                  => /\ Margins(financings[k]) = <<0, 0, 0>>
                     /\ trades'[financings[k].trade].status = "completed"]_vars

\* C20: a payment request with amount <= 0 or amount > amount_due of its invoice
\* creates no Payment: every Payment a step creates has 0 < amount <= the amount
\* due of the invoice before the step.
C20_OnlyValidPaymentsAreRecorded ==
    [][\A p \in BagToSet(payments') :
           CopiesIn(p, payments') > CopiesIn(p, payments)
               => /\ p.amount > 0
                  /\ p.amount <= invoices[p.invoice].amount_due]_vars

\* C21: every step that writes an invoice row leaves its payment_status the
\* function of amount_paid, total_amount and due_date < today that the derivation
\* names ('paid' iff amount_paid >= total_amount, else 'overdue' if past due, else
\* 'partial' if something was paid, else 'unpaid'), and a 'paid' row has status
\* 'paid'.
ExpectedPaymentStatus(inv, day) ==
    IF inv.amount_paid >= inv.total_amount THEN "paid"
    ELSE IF inv.due_date < day THEN "overdue"
    ELSE IF inv.amount_paid > 0 THEN "partial"
    ELSE "unpaid"

C21_PaymentStatusIsDerived ==
    [][\A i \in 1..Len(invoices') :
           (i > Len(invoices) \/ invoices'[i] # invoices[i])
               => /\ invoices'[i].payment_status
                        = ExpectedPaymentStatus(invoices'[i], today')
                  /\ invoices'[i].payment_status = "paid"
                        => invoices'[i].status = "paid"]_vars

\* C22: under concurrent payments, each validated against amount_due, no invoice
\* has amount_paid above its total_amount or a negative amount_due.
C22_ConcurrentPaymentsWithinTotal ==
    \A i \in 1..Len(invoices) :
        /\ invoices[i].amount_paid <= invoices[i].total_amount
        /\ invoices[i].amount_due >= 0

\* C23: a step that records a delivery for a trade leaves the trade 'delivered'
\* when the delivered weight has reached the ordered quantity, leaves a trade that
\* was 'ready_for_delivery' 'in_transit' when it has not, and creates one invoice,
\* for the new GRN.
DeliveryRecorded(t) ==
    /\ Len(grns') = Len(grns) + 1
    /\ grns'[Len(grns')].trade = t

C23_DeliveryFlipsStatus ==
    [][\A t \in DOMAIN trades :
           DeliveryRecorded(t)
               => /\ delivered_so_far(DBnext, t) >= trades[t].quantity_kg
                        => trades'[t].status = "delivered"
                  /\ (/\ trades[t].status = "ready_for_delivery"
                      /\ delivered_so_far(DBnext, t) < trades[t].quantity_kg)
                        => trades'[t].status = "in_transit"
                  /\ Len(invoices') = Len(invoices) + 1
                  /\ invoices'[Len(invoices')].grn = Len(grns')]_vars

\* C24: a trade in status 'delivered' has GRNs whose net weights add up to at
\* least its ordered quantity.
C24_DeliveredMeansFullyDelivered ==
    \A t \in DOMAIN trades :
        trades[t].status = "delivered"
            => delivered_so_far(DB, t) >= trades[t].quantity_kg

\* C25: a delivery is recorded for a trade only when its weight w satisfies
\* 0 < w <= ordered quantity - weight delivered before the request.
C25_DeliveryWithinRemaining ==
    [][\A t \in DOMAIN trades :
           DeliveryRecorded(t)
               => /\ grns'[Len(grns')].net_weight_kg > 0
                  /\ grns'[Len(grns')].net_weight_kg
                        <= trades[t].quantity_kg - delivered_so_far(DB, t)]_vars

\* C26: cancelling a trade reverses every financing allocation, once: on the step
\* that makes the trade 'cancelled' each investor's total_utilized goes down, and
\* the available_balance up, by what the investor allocated to the trade, so that
\* both are back at their values before the allocation; a later step that leaves
\* the trade cancelled and allocates nothing leaves the accounts alone.
AllocatedTo(D, t, a) ==
    SumSeq(D.financings,
           LAMBDA f : IF f.trade = t /\ f.investor_account = a
                      THEN f.allocated_amount ELSE 0)

BecomesCancelled(t) ==
    /\ trades[t].status # "cancelled"
    /\ trades'[t].status = "cancelled"

Released(t, a) ==
    IF BecomesCancelled(t) THEN AllocatedTo(DB, t, a) ELSE 0

PreDeliveredStatuses ==
    {"draft", "pending_approval", "approved", "pending_allocation",
     "ready_for_delivery", "in_transit"}

EndsTrade(t) ==
    /\ trades[t].status \in PreDeliveredStatuses
    /\ trades'[t].status \in {"cancelled", "rejected"}

C27_EndedTradeIsUnwound ==
    [][\A t \in DOMAIN trades :
          EndsTrade(t) =>
              /\ \A a \in Investors :
                     /\ accounts'[a].total_utilized =
                            accounts[a].total_utilized - AllocatedTo(DB, t, a)
                     /\ accounts'[a].available_balance =
                            accounts[a].available_balance + AllocatedTo(DB, t, a)
              /\ \A i \in InvoicesOf(DBnext, t) :
                     invoices'[i].status = "cancelled"]_vars

\* C28: every step that changes a trade's status appends exactly one entry to the
\* trade's audit trail, and no step removes or rewrites an entry already there.
ChangesStatus(t) ==
    trades'[t].status # trades[t].status

TrailKept(t) ==
    /\ Len(trades'[t].internal_notes) >= Len(trades[t].internal_notes)
    /\ SubSeq(trades'[t].internal_notes, 1, Len(trades[t].internal_notes))
           = trades[t].internal_notes

C28_TransitionsAreLogged ==
    [][\A t \in DOMAIN trades :
          /\ TrailKept(t)
          /\ ChangesStatus(t) =>
                 Len(trades'[t].internal_notes) = Len(trades[t].internal_notes) + 1]_vars

\* C29: in every stored trade the totals agree with the inputs and with each
\* other: total_trade_cost is the purchase cost plus weighbridge cost, transport
\* total, the trade's share of the platform fee (seller: all, split: half, buyer:
\* none) and the loss cost; payable_by_buyer is selling_price * quantity_kg plus
\* the buyer's share of the fee; margin is payable_by_buyer - total_trade_cost.
\* For 10 kg bought at 1,000 and sold at 1,200 they are 10,000, 12,000 and 2,000.
FeeShare(tr, side) ==
    IF tr.bennu_fees_payer = side THEN Frac(tr.bennu_fees, 1)
    ELSE IF tr.bennu_fees_payer = "split" THEN Frac(tr.bennu_fees, 2)
    ELSE Frac(0, 1)

TotalsAgreeWithInputs(tr) ==
    /\ tr.quantity_kg = 10 * tr.net_tonnage
    /\ tr.total_trade_cost =
           FracAddToDb(tr.buying_price * tr.quantity_kg + tr.weighbridge_cost
                           + tr.transport_cost_per_kg * tr.quantity_kg
                           + tr.loss_quantity_kg * tr.buying_price,
                       FeeShare(tr, "seller"))
    /\ tr.payable_by_buyer =
           FracAddToDb(tr.selling_price * tr.quantity_kg, FeeShare(tr, "buyer"))

IsScenarioA(tr) ==
    /\ tr.quantity_kg = 10
    /\ tr.buying_price = 1000000
    /\ tr.selling_price = 1200000
    /\ tr.loss_quantity_kg = 0

C29_TotalsAreConsistent ==
    \A t \in DOMAIN trades :
        LET tr == trades[t]
        IN  /\ TotalsAgreeWithInputs(tr)
            /\ tr.margin = tr.payable_by_buyer - tr.total_trade_cost
            /\ IsScenarioA(tr) =>
                   /\ tr.total_trade_cost = 10000000
                   /\ tr.payable_by_buyer = 12000000
                   /\ tr.margin = 2000000

\* C30: once a trade is delivered in full, in one delivery or several, the
\* bennu_fees of its invoices add up to the buyer's share of the trade's platform
\* fee (all of it if the buyer pays, half if split, none if the seller pays), and
\* their weighbridge_cost adds up to the trade's weighbridge_cost.
InvoicedFees(t) ==
    SumSeq(invoices, LAMBDA i : IF i.trade = t THEN i.bennu_fees ELSE 0)

InvoicedWeighbridge(t) ==
    SumSeq(invoices, LAMBDA i : IF i.trade = t THEN i.weighbridge_cost ELSE 0)

DeliveredInFull(t) ==
    delivered_so_far(DB, t) = trades[t].quantity_kg

C30_ChargesAddUpToTrade ==
    \A t \in DOMAIN trades :
        DeliveredInFull(t) =>
            /\ InvoicedFees(t) = FracToDb(FeeShare(trades[t], "buyer"))
            /\ InvoicedWeighbridge(t) = trades[t].weighbridge_cost

\* C31: no invoice number is handed out twice: the number a request has generated
\* for its invoice is neither the number of a stored invoice nor the number
\* another request in flight has generated, and stored invoices have distinct
\* numbers.
InFlightNumbers(p) ==
    IF procs[p].pc = "grn_invoice" THEN {procs[p].invoice_number} ELSE {}

C31_InvoiceNumbersAreUnique ==
    /\ \A i, j \in 1..Len(invoices) :
           invoices[i].invoice_number = invoices[j].invoice_number => i = j
    /\ \A p \in Procs : \A number \in InFlightNumbers(p) :
           /\ ~invoice_number_taken(DB, number)
           /\ \A q \in Procs \ {p} : number \notin InFlightNumbers(q)

\* C32: on every step that records or completes a payment, a trade that was
\* 'delivered' and whose invoices are all 'paid' after the step is 'completed'
\* after the step, and a trade that was in any other status keeps its status.
PaymentStep ==
    payments' # payments

AllInvoicesPaid(D, t) ==
    /\ InvoicesOf(D, t) # {}
    /\ \A i \in InvoicesOf(D, t) : D.invoices[i].payment_status = "paid"

C32_PaymentCompletesDeliveredTrade ==
    [][PaymentStep =>
          \A t \in DOMAIN trades :
              /\ trades[t].status = "delivered" /\ AllInvoicesPaid(DBnext, t)
                     => trades'[t].status = "completed"
              /\ trades[t].status # "delivered"
                     => trades'[t].status = trades[t].status]_vars

\* A trade delivered in two batches that the payment of its second invoice has
\* completed.
C32_Witness ==
    \E t \in DOMAIN trades :
        /\ trades[t].status = "completed"
        /\ AllInvoicesPaid(DB, t)
        /\ Cardinality(InvoicesOf(DB, t)) = 2
        /\ BagCardinality(payments) >= 2

\* C33: the amount_paid of every invoice is the sum of the amounts of its
\* payments whose status is 'completed', whether they were recorded as completed
\* or recorded as pending and completed later.
C33_AmountPaidIsCompletedPayments ==
    \A i \in 1..Len(invoices) : invoices[i].amount_paid = total_paid(DB, i)

\* C34: every investor's total_utilized is non-negative and is the sum of the
\* allocated_amount of the investor's financings of trades that are neither
\* completed nor cancelled: no allocation is released twice.
OutstandingOf(a) ==
    SumSeq(financings,
           LAMBDA f : IF /\ f.investor_account = a
                         /\ trades[f.trade].status \notin {"completed", "cancelled"}
                      THEN f.allocated_amount ELSE 0)

C34_UtilizedIsOutstanding ==
    \A a \in Investors :
        /\ accounts[a].total_utilized >= 0
        /\ accounts[a].total_utilized = OutstandingOf(a)

\* C35: a GRN is created only for a trade that is 'ready_for_delivery',
\* 'in_transit' or 'delivered' when the request is made, so a trade that requires
\* financing and whose financing is not complete has no GRN and is neither
\* 'in_transit' nor 'delivered'.
DeliverableStatuses ==
    {"ready_for_delivery", "in_transit", "delivered"}

C35_GrnOnlyForDeliverableTrade ==
    [][/\ Len(grns') > Len(grns) =>
              trades[grns'[Len(grns')].trade].status \in DeliverableStatuses
       /\ \A t \in DOMAIN trades :
              trades'[t].requires_financing /\ ~trades'[t].financing_complete =>
                  /\ GrnsOf(DBnext, t) = {}
                  /\ trades'[t].status \notin {"in_transit", "delivered"}]_vars

\* C36: the allocations accepted for a trade never add up to more than its
\* total_trade_cost, and the margin_earned of the financings of a completed trade
\* with a positive margin never adds up to more than the trade's margin.
MarginEarnedOf(t) ==
    SumSeq(financings, LAMBDA f : IF f.trade = t THEN f.margin_earned ELSE 0)

AllocationsWithinCost(t) ==
    get_allocated_financing(DB, t) <= trades[t].total_trade_cost

MarginsWithinMargin(t) ==
    trades[t].status = "completed" /\ trades[t].margin > 0 =>
        MarginEarnedOf(t) <= trades[t].margin

C36_CreditedWithinEarned ==
    \A t \in DOMAIN trades : AllocationsWithinCost(t) /\ MarginsWithinMargin(t)

\* C37: in every state, a progression of a trade that raises leaves the stored
\* trade (status, internal_notes and every other column) and every other row as
\* they are, with or without notes in the request; and from 'completed',
\* 'cancelled' and 'rejected' the progression always raises.
FinalStatuses ==
    {"completed", "cancelled", "rejected"}

C38_CancelledInvoiceStaysCancelled ==
    [][\A i \in 1..Len(invoices) :
          /\ cancel_invoice(i) => invoices'[i].status = "cancelled"
          /\ invoices[i].status = "cancelled" => invoices'[i].status = "cancelled"]_vars

====
